---------------------------- MODULE Spec2Model ----------------------------
(***************************************************************************)
(* Model of struct union_find (src/graph/unionFind.cpp): a disjoint-set    *)
(* forest with path compression, union by size and a (min, max) aggregate  *)
(* per component.                                                          *)
(*                                                                         *)
(* The three vectors are functions over 0..number_of_elements-1.  Every    *)
(* member function is an operator over a record uf of the three vectors    *)
(* that yields the vectors after the call and the value returned; one      *)
(* action per member function applies it to the state.                     *)
(***************************************************************************)
EXTENDS Integers, FiniteSets, Sequences, TLC

\* Largest element count a structure is constructed with.
MaxN == 4

VARIABLES
    number_of_elements, \* the constructor's argument
    repr,               \* vector<int> repr
    component_size,     \* vector<int> component_size
    additionalInfo,     \* vector<pair<int,int>> additionalInfo
    call,               \* the last call made: [op, args]
    ret,                \* what the last call returned
    outcome,            \* "ok", or how an undefined access ended
    components,         \* history: the partition the merge calls generate
    before,             \* history: the vectors when the last call started
    threads,            \* per caller thread: the call it is executing
    mutex               \* the callers' lock: whether they use one, its holder

vars == <<number_of_elements, repr, component_size, additionalInfo,
          call, ret, outcome, components, before, threads, mutex>>

\* The object: its three data members.
self ==
    [repr |-> repr, component_size |-> component_size,
     additionalInfo |-> additionalInfo]

\* The valid element identifiers, 0 .. n-1.
Elements == 0 .. (number_of_elements - 1)

\* The threads of the calling program.
Threads == {1, 2}

\* A thread that is in no call: its position, the locals of the member
\* function it runs, the frames of find it has open, the value last
\* returned to it, and (history) the vectors when its call started, the
\* frames of find opened by the current call of find from outside find, the
\* nodes that were on the path then, and the steps its call has taken.
NoCall ==
    [op |-> "none", args |-> <<>>, pc |-> "idle", x |-> 0, y |-> 0,
     tmp |-> 0, stack |-> <<>>, val |-> 0, start |-> <<>>,
     calls |-> 0, path |-> 0, steps |-> 0]

\* Callers that make one call at a time, in full, and use no lock.
NoThreads == [t \in Threads |-> NoCall]

NoMutex == [used |-> FALSE, holder |-> 0]

\* std::max, as line 70 uses it.
max(a, b) == IF a < b THEN b ELSE a

\* Mutant of min: line 70's max pasted into line 69.
min_pasted_max(a, b) == max(a, b)

\* std::min, as line 69 uses it.
min(a, b) == IF b < a THEN b ELSE a

\* Mutant of union_find: line 21 pushing 0 for 1.
union_find_sizes_zero(k) ==
    [repr           |-> [i \in 0 .. (k - 1) |-> i],
     component_size |-> [i \in 0 .. (k - 1) |-> 0],
     additionalInfo |-> [i \in 0 .. (k - 1) |-> [first |-> i, second |-> i]]]

(***************************************************************************)
(* union_find(int number_of_elements): the loop pushes i, 1 and {i, i} for *)
(* i = 0 .. number_of_elements-1; it does not run for a count <= 0.        *)
(***************************************************************************)
union_find(k) ==
    [repr           |-> [i \in 0 .. (k - 1) |-> i],
     component_size |-> [i \in 0 .. (k - 1) |-> 1],
     additionalInfo |-> [i \in 0 .. (k - 1) |-> [first |-> i, second |-> i]]]

(***************************************************************************)
(* int find(int a): returns a when repr[a] == a; otherwise recurses on     *)
(* repr[a], stores the result in repr[a] and returns it.                   *)
(***************************************************************************)
RECURSIVE find(_, _)

\* Mutant of find: one link followed, no recursion and no compression.
find_one_link(uf, a) == [uf |-> uf, ret |-> uf.repr[a]]

\* Mutant of find: line 40 without the store, return find(repr[a]).
find_without_store(uf, a) ==
    IF uf.repr[a] = a
    THEN [uf |-> uf, ret |-> a]
    ELSE find(uf, uf.repr[a])

find(uf, a) ==
    IF uf.repr[a] = a
    THEN [uf |-> uf, ret |-> a]
    ELSE LET sub == find(uf, uf.repr[a])
         IN  [uf  |-> [sub.uf EXCEPT !.repr[a] = sub.ret],
              ret |-> sub.ret]

\* Mutant of size: component_size[a] read without a = find(a).
size_of_argument(uf, a) == [uf |-> uf, ret |-> uf.component_size[a]]

\* int size(int a): a = find(a); return component_size[a].
size(uf, a) ==
    LET f == find(uf, a)
    IN  [uf |-> f.uf, ret |-> f.uf.component_size[f.ret]]

\* Mutant of merge_step: line 65, component_size[pebble] = 0, left out.
merge_step_keeps_size(uf, gravity, pebble) ==
    [uf EXCEPT
        !.repr[pebble] = gravity,
        !.component_size[gravity] = @ + uf.component_size[pebble]]

\* Mutant of merge_step: line 63, repr[pebble] = gravity, left out.
merge_step_without_link(uf, gravity, pebble) ==
    [uf EXCEPT
        !.component_size[gravity] = @ + uf.component_size[pebble],
        !.component_size[pebble] = 0]

\* Mutant of merge_step: lines 64-65 with the two names exchanged.
merge_step_zeroes_gravity(uf, gravity, pebble) ==
    [uf EXCEPT
        !.repr[pebble] = gravity,
        !.component_size[pebble] = @ + uf.component_size[gravity],
        !.component_size[gravity] = 0]

\* Mutant of merge_step: line 65 with an index slip, the entry after pebble
\* zeroed when there is one.
merge_step_index_slip(uf, gravity, pebble) ==
    LET s1 == [uf EXCEPT !.repr[pebble] = gravity]
        s2 == [s1 EXCEPT !.component_size[gravity] =
                             @ + s1.component_size[pebble]]
        q  == IF pebble + 1 \in DOMAIN uf.component_size
              THEN pebble + 1 ELSE pebble
    IN  [s2 EXCEPT !.component_size[q] = 0]

(***************************************************************************)
(* "The merge step", lines 63-65: repr[pebble] = gravity;                  *)
(* component_size[gravity] += component_size[pebble];                      *)
(* component_size[pebble] = 0.  The three statements in the code's order.  *)
(***************************************************************************)
merge_step(uf, gravity, pebble) ==
    LET s1 == [uf EXCEPT !.repr[pebble] = gravity]
        s2 == [s1 EXCEPT !.component_size[gravity] =
                             @ + s1.component_size[pebble]]
    IN  [s2 EXCEPT !.component_size[pebble] = 0]

(***************************************************************************)
(* "Additional info merge step", lines 69-70: additionalInfo[gravity]      *)
(* takes the min of the two firsts, then the max of the two seconds.       *)
(***************************************************************************)
additional_info_merge_step(uf, gravity, pebble) ==
    LET s1 == [uf EXCEPT !.additionalInfo[gravity].first =
                             min(@, uf.additionalInfo[pebble].first)]
    IN  [s1 EXCEPT !.additionalInfo[gravity].second =
                       max(@, s1.additionalInfo[pebble].second)]

\* Mutant of merge: lines 53-55, the return on equal representatives, left out.
merge_without_same_check(uf, x, y) ==
    LET f1      == find(uf, x)
        f2      == find(f1.uf, y)
        u       == f2.uf
        swap    == u.component_size[f2.ret] > u.component_size[f1.ret]
        gravity == IF swap THEN f2.ret ELSE f1.ret
        pebble  == IF swap THEN f1.ret ELSE f2.ret
    IN  [uf  |-> additional_info_merge_step(
                     merge_step(u, gravity, pebble), gravity, pebble),
         ret |-> "void"]

\* Mutant of merge: line 50, pebble = find(pebble), left out, so that the
\* argument itself is re-pointed.
merge_repoints_argument(uf, x, y) ==
    LET f1      == find(uf, x)
        u       == f1.uf
        swap    == u.component_size[y] > u.component_size[f1.ret]
        gravity == IF swap THEN y ELSE f1.ret
        pebble  == IF swap THEN f1.ret ELSE y
    IN  IF f1.ret = y
        THEN [uf |-> u, ret |-> "void"]
        ELSE [uf  |-> additional_info_merge_step(
                          merge_step(u, gravity, pebble), gravity, pebble),
              ret |-> "void"]

\* Mutant of merge: line 58 with < for >.
merge_swaps_smaller(uf, x, y) ==
    LET f1      == find(uf, x)
        f2      == find(f1.uf, y)
        u       == f2.uf
        swap    == u.component_size[f2.ret] < u.component_size[f1.ret]
        gravity == IF swap THEN f2.ret ELSE f1.ret
        pebble  == IF swap THEN f1.ret ELSE f2.ret
    IN  IF f1.ret = f2.ret
        THEN [uf |-> u, ret |-> "void"]
        ELSE [uf  |-> additional_info_merge_step(
                          merge_step(u, gravity, pebble), gravity, pebble),
              ret |-> "void"]

\* Mutant of merge: lines 58-60, the size heuristic, left out.
merge_without_swap(uf, x, y) ==
    LET f1 == find(uf, x)
        f2 == find(f1.uf, y)
        u  == f2.uf
    IN  IF f1.ret = f2.ret
        THEN [uf |-> u, ret |-> "void"]
        ELSE [uf  |-> additional_info_merge_step(
                          merge_step(u, f1.ret, f2.ret), f1.ret, f2.ret),
              ret |-> "void"]

(***************************************************************************)
(* void merge(int gravity, int pebble): both arguments are replaced by     *)
(* their representatives (lines 49-50); equal representatives return at    *)
(* once (53-55); the two are swapped when pebble's component is strictly   *)
(* larger (58-60); then the merge step and the additional info merge step. *)
(***************************************************************************)
merge(uf, x, y) ==
    LET f1      == find(uf, x)
        f2      == find(f1.uf, y)
        u       == f2.uf
        swap    == u.component_size[f2.ret] > u.component_size[f1.ret]
        gravity == IF swap THEN f2.ret ELSE f1.ret
        pebble  == IF swap THEN f1.ret ELSE f2.ret
    IN  IF f1.ret = f2.ret
        THEN [uf |-> u, ret |-> "void"]
        ELSE [uf  |-> additional_info_merge_step(
                          merge_step(u, gravity, pebble), gravity, pebble),
              ret |-> "void"]

\* Mutant of count_islands: el >= 0 for el > 0.
count_islands_nonnegative(uf) ==
    [uf  |-> uf,
     ret |-> Cardinality({i \in DOMAIN uf.component_size :
                              uf.component_size[i] >= 0})]

\* int count_islands(): the number of entries of component_size that are > 0.
count_islands(uf) ==
    [uf  |-> uf,
     ret |-> Cardinality({i \in DOMAIN uf.component_size :
                              uf.component_size[i] > 0})]

\* Mutant of get: a get that also unites the two components it compared.
get_unites(uf, u, v) ==
    LET f1 == find(uf, u)
        f2 == find(f1.uf, v)
    IN  [uf |-> merge(uf, u, v).uf, ret |-> (f1.ret = f2.ret)]

\* Mutant of get: line 89, u = find(u), computed but not assigned.
get_unassigned_u(uf, u, v) ==
    LET f1 == find(uf, u)
        f2 == find(f1.uf, v)
    IN  [uf |-> f2.uf, ret |-> (u = f2.ret)]

\* bool get(int u, int v): u = find(u); v = find(v); return u == v.
get(uf, u, v) ==
    LET f1 == find(uf, u)
        f2 == find(f1.uf, v)
    IN  [uf |-> f2.uf, ret |-> (f1.ret = f2.ret)]

---------------------------------------------------------------------------
(* The state machine: a structure is constructed, then called.             *)

(***************************************************************************)
(* The history variable components is the partition of the elements into   *)
(* the classes of the reflexive-symmetric-transitive closure of the pairs  *)
(* passed to merge so far.  It starts as the singletons, and a call        *)
(* merge(x, y) replaces the classes of x and y by their union, which is    *)
(* the closure with the pair (x, y) added.  It never reads the vectors.    *)
(***************************************************************************)
Class(P, x) == CHOOSE B \in P : x \in B

Join(P, x, y) ==
    (P \ {Class(P, x), Class(P, y)}) \cup {Class(P, x) \cup Class(P, y)}

\* The state a call leaves: the vectors and the value of the result res.
Return(op, args, res) ==
    /\ outcome = "ok"
    /\ before' = self
    /\ repr' = res.uf.repr
    /\ component_size' = res.uf.component_size
    /\ additionalInfo' = res.uf.additionalInfo
    /\ call' = [op |-> op, args |-> args]
    /\ ret' = res.ret
    /\ UNCHANGED <<number_of_elements, outcome, threads, mutex>>

\* The state after union_find(k).
Construct(k) ==
    /\ number_of_elements = k
    /\ repr = union_find(k).repr
    /\ component_size = union_find(k).component_size
    /\ additionalInfo = union_find(k).additionalInfo
    /\ call = [op |-> "union_find", args |-> <<k>>]
    /\ ret = "void"
    /\ outcome = "ok"
    /\ components = {{i} : i \in 0 .. (k - 1)}
    /\ before = union_find(k)
    /\ threads = NoThreads
    /\ mutex = NoMutex

Init == \E k \in 0 .. MaxN : Construct(k)

Find(a) ==
    /\ a \in Elements
    /\ Return("find", <<a>>, find(self, a))
    /\ UNCHANGED components

Merge(x, y) ==
    /\ x \in Elements
    /\ y \in Elements
    /\ Return("merge", <<x, y>>, merge(self, x, y))
    /\ components' = Join(components, x, y)

Size(a) ==
    /\ a \in Elements
    /\ Return("size", <<a>>, size(self, a))
    /\ UNCHANGED components

Get(u, v) ==
    /\ u \in Elements
    /\ v \in Elements
    /\ Return("get", <<u, v>>, get(self, u, v))
    /\ UNCHANGED components

CountIslands ==
    /\ Return("count_islands", <<>>, count_islands(self))
    /\ UNCHANGED components

Next ==
    \/ \E a \in Elements : Find(a)
    \/ \E x, y \in Elements : Merge(x, y)
    \/ \E a \in Elements : Size(a)
    \/ \E u, v \in Elements : Get(u, v)
    \/ CountIslands

Spec == Init /\ [][Next]_vars

---------------------------------------------------------------------------
(***************************************************************************)
(* Calls with an identifier outside 0 .. n-1.  No member function checks   *)
(* its argument: find, the first statement of every one of them, indexes   *)
(* repr with it (vector::operator[], unchecked), which is undefined        *)
(* behaviour.  What a build produces there is either the process being     *)
(* killed at the access ("crash"), or the call running on with whatever    *)
(* the stray reads gave it ("returned"): it then returns an arbitrary      *)
(* value, and the stray write of repr[a] = ... (lines 40, 63-70) may have  *)
(* landed in a neighbouring buffer of the object.  Nothing is modelled     *)
(* after such a call.                                                      *)
(***************************************************************************)

\* Values a stray read may yield.
Garbage == {-1, 0}

\* The identifiers calls are made with: the valid ones and one on each side.
Ids == (-1) .. number_of_elements

\* The vectors after a stray write: untouched, or one size entry overwritten.
StrayWrites(uf) ==
    {uf} \cup
    {[uf EXCEPT !.component_size[i] = g] :
        i \in DOMAIN uf.component_size, g \in Garbage}

\* uf: the vectors when the out-of-range access happens; rets: what the call
\* may return if it returns.
Undefined(op, args, uf, rets) ==
    /\ outcome = "ok"
    /\ before' = self
    /\ call' = [op |-> op, args |-> args]
    /\ \/ /\ outcome' = "crash"
          /\ ret' = "none"
          /\ repr' = uf.repr
          /\ component_size' = uf.component_size
          /\ additionalInfo' = uf.additionalInfo
       \/ /\ outcome' = "returned"
          /\ ret' \in rets
          /\ \E w \in StrayWrites(uf) :
                /\ repr' = w.repr
                /\ component_size' = w.component_size
                /\ additionalInfo' = w.additionalInfo
    /\ UNCHANGED <<number_of_elements, components, threads, mutex>>

FindOutOfRange(a) ==
    /\ a \notin Elements
    /\ Undefined("find", <<a>>, self, Garbage \cup {a})

SizeOutOfRange(a) ==
    /\ a \notin Elements
    /\ Undefined("size", <<a>>, self, Garbage)

\* find(gravity) runs first; with gravity valid it compresses before the
\* access find(pebble) makes.
MergeOutOfRange(x, y) ==
    /\ x \notin Elements \/ y \notin Elements
    /\ Undefined("merge", <<x, y>>,
                 IF x \in Elements THEN find(self, x).uf ELSE self,
                 {"void"})

GetOutOfRange(u, v) ==
    /\ u \notin Elements \/ v \notin Elements
    /\ Undefined("get", <<u, v>>,
                 IF u \in Elements THEN find(self, u).uf ELSE self,
                 BOOLEAN)

\* Any int may be passed to the constructor, a negative one among them.
InitUnchecked == \E k \in (-1) .. MaxN : Construct(k)

NextUnchecked ==
    \/ \E a \in Elements : Find(a)
    \/ \E x, y \in Elements : Merge(x, y)
    \/ \E a \in Elements : Size(a)
    \/ \E u, v \in Elements : Get(u, v)
    \/ CountIslands
    \/ \E a \in Ids : FindOutOfRange(a)
    \/ \E a \in Ids : SizeOutOfRange(a)
    \/ \E x, y \in Ids : MergeOutOfRange(x, y)
    \/ \E u, v \in Ids : GetOutOfRange(u, v)

\* A structure constructed with a count >= 0, called with any identifiers.
SpecUnchecked == Init /\ [][NextUnchecked]_vars

\* The same, the structure constructed with any count.
SpecAnyCount == InitUnchecked /\ [][NextUnchecked]_vars

---------------------------------------------------------------------------
(* What the claims are stated with.  None of it calls a member function.   *)

\* The element reached from a by following r, k links at most.
RECURSIVE Walk(_, _, _)
Walk(r, a, k) == IF k = 0 \/ r[a] = a THEN a ELSE Walk(r, r[a], k - 1)

\* The ultimate representative of a under the links r.
Root(r, a) == Walk(r, a, Cardinality(DOMAIN r))

\* The elements whose ultimate representative is that of a.
Members(r, a) == {b \in DOMAIN r : Root(r, b) = Root(r, a)}

\* The nodes on the path from a to its root, both included.
RECURSIVE Path(_, _, _)
Path(r, a, k) ==
    IF k = 0 \/ r[a] = a THEN {a} ELSE {a} \cup Path(r, r[a], k - 1)

PathOf(r, a) == Path(r, a, Cardinality(DOMAIN r))

\* The indices that are their own representative.
Roots(r) == {i \in DOMAIN r : r[i] = i}

RECURSIVE SumOver(_, _)
SumOver(f, S) ==
    IF S = {} THEN 0
    ELSE LET x == CHOOSE y \in S : TRUE IN f[x] + SumOver(f, S \ {x})

Least(S) == CHOOSE x \in S : \A y \in S : x <= y

Greatest(S) == CHOOSE x \in S : \A y \in S : y <= x

\* The last call was op, made with valid arguments.
Called(op) == call.op = op /\ outcome = "ok"

\* The two arguments of the last merge were in one component when it started.
MergedWithinComponent ==
    /\ Called("merge")
    /\ Root(before.repr, call.args[1]) = Root(before.repr, call.args[2])

---------------------------------------------------------------------------
(***************************************************************************)
(* The member functions statement by statement, as a thread executes them. *)
(* A step is one statement of the source, and the statements that read     *)
(* the vectors and then write them (lines 64, 69, 70) are two steps, the   *)
(* reads and the write.  A thread record holds the position pc in the      *)
(* member function, its locals x and y (a; gravity and pebble; u and v;    *)
(* the loop index and count of count_islands), the open frames of find     *)
(* (innermost last) and the value val last returned.                       *)
(***************************************************************************)

\* A frame of find(a) about to run line 35.
Frame(a) == [a |-> a, pc |-> "f35"]

\* The thread th calls find(a) from a member function that goes on at pc.
CallFind(th, uf, a, pc) ==
    [th EXCEPT !.stack = <<Frame(a)>>, !.pc = pc, !.calls = 1,
               !.path = Cardinality(PathOf(uf.repr, a))]

\* The member function returns v.
Done(th, v) == [th EXCEPT !.pc = "done", !.val = v]

(***************************************************************************)
(* find has returned v to the member function: the assignment of the       *)
(* result and what follows up to the next access to the vectors.           *)
(*   find   a call of find itself: v is the result                         *)
(*   s28    a = find(a)                                       (size)       *)
(*   g89    u = find(u), then the call of line 90             (get)        *)
(*   g90    v = find(v), then lines 91-94                     (get)        *)
(*   m49    gravity = find(gravity), then the call of line 50 (merge)      *)
(*   m50    pebble = find(pebble), then lines 53-55           (merge)      *)
(***************************************************************************)
Resume(th, uf, v) ==
    CASE th.pc = "find" -> Done(th, v)
      [] th.pc = "s28"  -> [th EXCEPT !.x = v, !.pc = "s29"]
      [] th.pc = "g89"  -> CallFind([th EXCEPT !.x = v], uf, th.y, "g90")
      [] th.pc = "g90"  -> Done([th EXCEPT !.y = v], th.x = v)
      [] th.pc = "m49"  -> CallFind([th EXCEPT !.x = v], uf, th.y, "m50")
      [] th.pc = "m50"  -> IF th.x = v
                           THEN Done([th EXCEPT !.y = v], "void")
                           ELSE [th EXCEPT !.y = v, !.pc = "m58"]

\* The innermost frame of find returns v: to the frame that called it,
\* which stores it next (line 40), or to the member function.
find_return(th, uf, v) ==
    IF Len(th.stack) > 1
    THEN [th EXCEPT !.stack = SubSeq(th.stack, 1, Len(th.stack) - 1),
                    !.val = v]
    ELSE Resume([th EXCEPT !.stack = <<>>], uf, v)

\* The innermost frame at pc.
AtLine(th, pc) == [th EXCEPT !.stack[Len(th.stack)].pc = pc]

\* Mutant of find_frame: line 42 as return find(repr[a]).
find_frame_returns_by_call(th, uf) ==
    LET top == th.stack[Len(th.stack)]
        a   == top.a
    IN  CASE top.pc = "f35" ->
               IF uf.repr[a] = a
               THEN [th |-> find_return(th, uf, a), uf |-> uf]
               ELSE [th |-> AtLine(th, "f40"), uf |-> uf]
          [] top.pc = "f40" ->
               [th |-> [th EXCEPT
                          !.stack = Append(AtLine(th, "f40w").stack,
                                           Frame(uf.repr[a])),
                          !.calls = @ + 1],
                uf |-> uf]
          [] top.pc = "f40w" ->
               [th |-> AtLine(th, "f42"),
                uf |-> [uf EXCEPT !.repr[a] = th.val]]
          [] top.pc = "f42" ->
               [th |-> [th EXCEPT
                          !.stack = Append(AtLine(th, "f42r").stack,
                                           Frame(uf.repr[a])),
                          !.calls = @ + 1],
                uf |-> uf]
          [] top.pc = "f42r" ->
               [th |-> find_return(th, uf, th.val), uf |-> uf]

(***************************************************************************)
(* One step of the innermost frame of find(a), lines 35-42:                *)
(*   f35   if (repr[a] == a) return a;                                     *)
(*   f40   the call find(repr[a]) of line 40: a new frame                  *)
(*   f40w  repr[a] = <the value returned>                                  *)
(*   f42   return repr[a];                                                 *)
(***************************************************************************)
find_frame(th, uf) ==
    LET top == th.stack[Len(th.stack)]
        a   == top.a
    IN  CASE top.pc = "f35" ->
               IF uf.repr[a] = a
               THEN [th |-> find_return(th, uf, a), uf |-> uf]
               ELSE [th |-> AtLine(th, "f40"), uf |-> uf]
          [] top.pc = "f40" ->
               [th |-> [th EXCEPT
                          !.stack = Append(AtLine(th, "f40w").stack,
                                           Frame(uf.repr[a])),
                          !.calls = @ + 1],
                uf |-> uf]
          [] top.pc = "f40w" ->
               [th |-> AtLine(th, "f42"),
                uf |-> [uf EXCEPT !.repr[a] = th.val]]
          [] top.pc = "f42" ->
               [th |-> find_return(th, uf, uf.repr[a]), uf |-> uf]

\* Mutant of line64_sum: component_size[pebble] not added.
line64_sum_forgets_pebble(uf, gravity, pebble) == uf.component_size[gravity]

\* The right-hand side of line 64 as a thread computes it from what it
\* reads: component_size[gravity] + component_size[pebble].
line64_sum(uf, gravity, pebble) ==
    uf.component_size[gravity] + uf.component_size[pebble]

(***************************************************************************)
(* One step of a member function that is not inside find:                  *)
(*   s29         return component_size[a];                       (size)    *)
(*   m58         lines 58-60: the comparison and the swap        (merge)   *)
(*   m63         repr[pebble] = gravity;                                   *)
(*   m64r, m64w  component_size[gravity] += component_size[pebble];        *)
(*   m65         component_size[pebble] = 0;                               *)
(*   m69r, m69w  additionalInfo[gravity].first = min(...);                 *)
(*   m70r, m70w  additionalInfo[gravity].second = max(...);                *)
(*   c78         one round of the loop of lines 78-82, or line 83 (count)  *)
(***************************************************************************)
member_step(th, uf) ==
    LET x == th.x
        y == th.y
    IN  CASE th.pc = "s29" ->
               [th |-> Done(th, uf.component_size[x]), uf |-> uf]
          [] th.pc = "m58" ->
               [th |-> IF uf.component_size[y] > uf.component_size[x]
                       THEN [th EXCEPT !.x = y, !.y = x, !.pc = "m63"]
                       ELSE [th EXCEPT !.pc = "m63"],
                uf |-> uf]
          [] th.pc = "m63" ->
               [th |-> [th EXCEPT !.pc = "m64r"],
                uf |-> [uf EXCEPT !.repr[y] = x]]
          [] th.pc = "m64r" ->
               [th |-> [th EXCEPT !.tmp = line64_sum(uf, x, y),
                                  !.pc = "m64w"],
                uf |-> uf]
          [] th.pc = "m64w" ->
               [th |-> [th EXCEPT !.pc = "m65"],
                uf |-> [uf EXCEPT !.component_size[x] = th.tmp]]
          [] th.pc = "m65" ->
               [th |-> [th EXCEPT !.pc = "m69r"],
                uf |-> [uf EXCEPT !.component_size[y] = 0]]
          [] th.pc = "m69r" ->
               [th |-> [th EXCEPT
                          !.tmp = min(uf.additionalInfo[x].first,
                                      uf.additionalInfo[y].first),
                          !.pc = "m69w"],
                uf |-> uf]
          [] th.pc = "m69w" ->
               [th |-> [th EXCEPT !.pc = "m70r"],
                uf |-> [uf EXCEPT !.additionalInfo[x].first = th.tmp]]
          [] th.pc = "m70r" ->
               [th |-> [th EXCEPT
                          !.tmp = max(uf.additionalInfo[x].second,
                                      uf.additionalInfo[y].second),
                          !.pc = "m70w"],
                uf |-> uf]
          [] th.pc = "m70w" ->
               [th |-> Done(th, "void"),
                uf |-> [uf EXCEPT !.additionalInfo[x].second = th.tmp]]
          [] th.pc = "c78" ->
               [th |-> IF x \in DOMAIN uf.component_size
                       THEN [th EXCEPT
                               !.x = @ + 1,
                               !.y = IF uf.component_size[x] > 0
                                     THEN @ + 1 ELSE @]
                       ELSE Done(th, y),
                uf |-> uf]

\* One step of the thread th on the vectors uf.
run(th, uf) ==
    LET r == IF th.stack # <<>> THEN find_frame(th, uf)
                                ELSE member_step(th, uf)
    IN  [th |-> [r.th EXCEPT !.steps = @ + 1], uf |-> r.uf]

\* Thread t is inside a call.
Running(t) == threads[t].pc \notin {"idle", "done"}

(***************************************************************************)
(* A thread makes the call th.  Callers that use the lock take it first    *)
(* and hold it until the call returns.                                     *)
(***************************************************************************)
Begin(t, th) ==
    /\ outcome = "ok"
    /\ threads[t].pc = "idle"
    /\ mutex.used => mutex.holder = 0
    /\ threads' = [threads EXCEPT ![t] = [th EXCEPT !.start = self]]
    /\ mutex' = IF mutex.used THEN [mutex EXCEPT !.holder = t] ELSE mutex
    /\ UNCHANGED <<number_of_elements, repr, component_size, additionalInfo,
                   call, ret, outcome, components, before>>

BeginFind(t, a) ==
    /\ a \in Elements
    /\ Begin(t, CallFind([NoCall EXCEPT !.op = "find", !.args = <<a>>],
                         self, a, "find"))

BeginSize(t, a) ==
    /\ a \in Elements
    /\ Begin(t, CallFind([NoCall EXCEPT !.op = "size", !.args = <<a>>,
                                        !.x = a],
                         self, a, "s28"))

BeginMerge(t, x, y) ==
    /\ x \in Elements
    /\ y \in Elements
    /\ Begin(t, CallFind([NoCall EXCEPT !.op = "merge", !.args = <<x, y>>,
                                        !.x = x, !.y = y],
                         self, x, "m49"))

BeginGet(t, u, v) ==
    /\ u \in Elements
    /\ v \in Elements
    /\ Begin(t, CallFind([NoCall EXCEPT !.op = "get", !.args = <<u, v>>,
                                        !.x = u, !.y = v],
                         self, u, "g89"))

BeginCountIslands(t) ==
    Begin(t, [NoCall EXCEPT !.op = "count_islands", !.pc = "c78"])

(***************************************************************************)
(* Thread t takes its next step.  The recursion of find is cut off at n+1  *)
(* open frames, one more than a forest of n elements can need.             *)
(***************************************************************************)
Step(t) ==
    /\ Running(t)
    /\ Len(threads[t].stack) <= number_of_elements
    /\ LET r == run(threads[t], self)
       IN  /\ threads' = [threads EXCEPT ![t] = r.th]
           /\ repr' = r.uf.repr
           /\ component_size' = r.uf.component_size
           /\ additionalInfo' = r.uf.additionalInfo
           /\ mutex' = IF mutex.used /\ r.th.pc = "done"
                       THEN [mutex EXCEPT !.holder = 0]
                       ELSE mutex
    /\ UNCHANGED <<number_of_elements, call, ret, outcome, components,
                   before>>

(***************************************************************************)
(* The structures a program can have built with k elements: what the       *)
(* constructor gives, closed under merge and find (size and get change     *)
(* the vectors as their calls of find do), each with the partition its     *)
(* merge calls generate.                                                   *)
(***************************************************************************)
RECURSIVE Built(_, _)
Built(S, k) ==
    LET T == S \cup
             {[uf |-> merge(s.uf, x, y).uf, P |-> Join(s.P, x, y)] :
                 s \in S, x \in 0 .. (k - 1), y \in 0 .. (k - 1)} \cup
             {[uf |-> find(s.uf, a).uf, P |-> s.P] :
                 s \in S, a \in 0 .. (k - 1)}
    IN  IF T = S THEN S ELSE Built(T, k)

Structures(k) ==
    Built({[uf |-> union_find(k), P |-> {{i} : i \in 0 .. (k - 1)}]}, k)

\* A structure of k elements built by earlier calls, no call under way.
BuiltStructure(k, used) ==
    \E s \in Structures(k) :
        /\ number_of_elements = k
        /\ repr = s.uf.repr
        /\ component_size = s.uf.component_size
        /\ additionalInfo = s.uf.additionalInfo
        /\ call = [op |-> "earlier", args |-> <<k>>]
        /\ ret = "void"
        /\ outcome = "ok"
        /\ components = s.P
        /\ before = s.uf
        /\ threads = NoThreads
        /\ mutex = [used |-> used, holder |-> 0]

(***************************************************************************)
(* One thread makes one call on a structure built before and executes it   *)
(* statement by statement.                                                 *)
(***************************************************************************)
InitSteps == \E k \in 0 .. MaxN : BuiltStructure(k, FALSE)

NextSteps ==
    \/ \E a \in Elements : BeginFind(1, a)
    \/ \E a \in Elements : BeginSize(1, a)
    \/ \E x, y \in Elements : BeginMerge(1, x, y)
    \/ \E u, v \in Elements : BeginGet(1, u, v)
    \/ BeginCountIslands(1)
    \/ Step(1)

SpecSteps == InitSteps /\ [][NextSteps]_vars

(***************************************************************************)
(* Two threads make one call each on a structure built before, their       *)
(* steps interleaved.  Either the callers use no lock, or they guard every *)
(* call with one exclusive lock.                                           *)
(***************************************************************************)

\* Largest element count of a structure that two threads call.
ThreadN == 2

InitThreads ==
    \E k \in 0 .. ThreadN : \E used \in BOOLEAN : BuiltStructure(k, used)

NextThreads ==
    \/ \E t \in Threads : \E a \in Elements : BeginFind(t, a)
    \/ \E t \in Threads : \E a \in Elements : BeginSize(t, a)
    \/ \E t \in Threads : \E x, y \in Elements : BeginMerge(t, x, y)
    \/ \E t \in Threads : \E u, v \in Elements : BeginGet(t, u, v)
    \/ \E t \in Threads : BeginCountIslands(t)
    \/ \E t \in Threads : Step(t)

SpecThreads == InitThreads /\ [][NextThreads]_vars

---------------------------------------------------------------------------
(* C1: get(u, v) returns true exactly when u and v are related by the      *)
(* reflexive-symmetric-transitive closure of the pairs passed to merge so  *)
(* far: in every reachable state for every pair, for the value a get call  *)
(* did return, for (a, a), and for (x, y) right after merge(x, y).         *)
C1_GetIsMergeClosure ==
    /\ \A u, v \in Elements :
          get(self, u, v).ret = (v \in Class(components, u))
    /\ \A a \in Elements : get(self, a, a).ret
    /\ Called("get") =>
          ret = (call.args[2] \in Class(components, call.args[1]))
    /\ Called("merge") => get(self, call.args[1], call.args[2]).ret

\* A get call answered true for two different elements of a class of three
\* or more, and compressed a path while doing so.
C1_Witness ==
    /\ Called("get")
    /\ ret = TRUE
    /\ call.args[1] # call.args[2]
    /\ Cardinality(Class(components, call.args[1])) >= 3
    /\ repr # before.repr

(* C2: size(a) returns the number of elements whose ultimate               *)
(* representative is that of a; component_size[r] at every current         *)
(* representative r is the number of elements of r's component.            *)
C2_SizeIsMemberCount ==
    /\ \A a \in Elements :
          size(self, a).ret = Cardinality(Members(repr, a))
    /\ \A r \in Roots(repr) :
          component_size[r] = Cardinality(Members(repr, r))
    /\ Called("size") =>
          ret = Cardinality(Members(repr, call.args[1]))

\* A size call on a non-representative returned 3.
C2_Witness ==
    /\ Called("size")
    /\ ret = 3
    /\ repr[call.args[1]] # call.args[1]

(* C3: size conservation: the sum of size(r) over the current              *)
(* representatives r, and the sum of all entries of component_size, are n. *)
C3_SizeConservation ==
    /\ SumOver([r \in Elements |-> size(self, r).ret], Roots(repr))
          = number_of_elements
    /\ SumOver(component_size, Elements) = number_of_elements

\* Two merges that joined components have happened.
C3_Witness ==
    /\ Called("merge")
    /\ Cardinality(Roots(repr)) + 2 <= number_of_elements
    /\ \E r \in Roots(repr) : component_size[r] >= 3

(* C4: across a merge call count_islands() decreases by exactly 1 when the *)
(* arguments were in different components and is unchanged when they were  *)
(* in the same one; it always equals the number of distinct components,    *)
(* and a count_islands call returns that number.                           *)
C4_CountFollowsMerges ==
    /\ Called("merge") =>
          count_islands(self).ret =
              count_islands(before).ret -
                  (IF MergedWithinComponent THEN 0 ELSE 1)
    /\ count_islands(self).ret = Cardinality(components)
    /\ Called("count_islands") => ret = Cardinality(components)

\* A merge of two different components, each of two elements, took the
\* count from 2 to 1.
C4_Witness ==
    /\ Called("merge")
    /\ ~MergedWithinComponent
    /\ count_islands(before).ret = 2
    /\ count_islands(self).ret = 1
    /\ number_of_elements = 4

(* C5: aggregate correctness: at the representative r of every component,  *)
(* additionalInfo[r] is (least index, greatest index) of the component.    *)
C5_AggregateIsMinMax ==
    \A r \in Roots(repr) :
        /\ additionalInfo[r].first = Least(Members(repr, r))
        /\ additionalInfo[r].second = Greatest(Members(repr, r))

\* The scenario union(0,1), union(2,3), union(1,2): one component
\* {0,1,2,3} whose aggregate is (0, 3).
C5_Witness ==
    /\ Called("merge")
    /\ call.args = <<1, 2>>
    /\ Members(repr, 0) = {0, 1, 2, 3}
    /\ additionalInfo[Root(repr, 0)] = [first |-> 0, second |-> 3]
    /\ before.additionalInfo[Root(before.repr, 1)] = [first |-> 0, second |-> 1]
    /\ before.additionalInfo[Root(before.repr, 2)] = [first |-> 2, second |-> 3]

(* C6: idempotent union: merge(x, y) with x and y already in one component *)
(* (x = y included) changes no component_size entry, no additionalInfo     *)
(* entry, no size(a), no get(u, v) and not count_islands(); the only repr  *)
(* entries that change are those of nodes on the find paths of x and y,    *)
(* which now hold the representative.                                      *)
C6_IdempotentUnion ==
    MergedWithinComponent =>
        /\ component_size = before.component_size
        /\ additionalInfo = before.additionalInfo
        /\ \A a \in Elements : size(self, a).ret = size(before, a).ret
        /\ \A u, v \in Elements : get(self, u, v).ret = get(before, u, v).ret
        /\ count_islands(self).ret = count_islands(before).ret
        /\ \A i \in Elements :
              repr[i] # before.repr[i] =>
                  /\ i \in PathOf(before.repr, call.args[1])
                            \cup PathOf(before.repr, call.args[2])
                  /\ repr[i] = Root(before.repr, i)

\* A merge of two different elements of one component that compressed a path.
C6_Witness ==
    /\ MergedWithinComponent
    /\ call.args[1] # call.args[2]
    /\ repr # before.repr

(* C7: the partition only coarsens: whatever the last call was (find,      *)
(* merge, size, get or count_islands), every two elements for which get    *)
(* was true when it started are elements for which get is true after it;   *)
(* no call separates two elements, so a pair once together stays together. *)
SameComponent(uf, u, v) == Root(uf.repr, u) = Root(uf.repr, v)

C7_OnlyCoarsens ==
    \A u, v \in Elements :
        (SameComponent(before, u, v) \/ get(before, u, v).ret)
            => (SameComponent(self, u, v) /\ get(self, u, v).ret)

\* A merge joined two components that each held two elements already
\* together, and they are together still.
C7_Witness ==
    /\ Called("merge")
    /\ ~MergedWithinComponent
    /\ \E u, v \in Elements :
          /\ u # v
          /\ Root(before.repr, u) = Root(before.repr, v)
          /\ before.repr[u] # repr[u]
          /\ SameComponent(self, u, v)

(* C8: find stability: a find call returns the representative the element  *)
(* had, a second find(a) right after returns the same value, and no        *)
(* element's representative is changed by a find call, whatever it         *)
(* compressed.                                                             *)
C8_FindStable ==
    Called("find") =>
        /\ ret = Root(before.repr, call.args[1])
        /\ find(self, call.args[1]).ret = ret
        /\ \A b \in Elements :
              /\ find(self, b).ret = find(before, b).ret
              /\ Root(repr, b) = Root(before.repr, b)

\* A find call that compressed a path.
C8_Witness ==
    /\ Called("find")
    /\ repr # before.repr
    /\ before.repr[call.args[1]] # ret

(* C9: every call of find, merge, size or get with an identifier outside   *)
(* [0, n) fails with IndexOutOfRange and leaves the three vectors as they  *)
(* were; with n = 0 count_islands() returns 0.                             *)
C9_OutOfRangeFails ==
    /\ (/\ call.op \in {"find", "merge", "size", "get"}
        /\ \E i \in DOMAIN call.args : call.args[i] \notin Elements)
          => (outcome = "IndexOutOfRange" /\ self = before)
    /\ number_of_elements = 0 => count_islands(self).ret = 0

(* C10: constructing with a negative element count fails with              *)
(* InvalidArgument rather than producing a structure.                      *)
C10_NegativeCountFails ==
    (call.op = "union_find" /\ call.args[1] < 0)
        => outcome = "InvalidArgument"

(* C11: right after construction with n >= 0 the three vectors have       *)
(* length n and repr[i] = i, component_size[i] = 1, additionalInfo[i] =    *)
(* (i, i) for every i; hence count_islands() = n, size(i) = 1 for every    *)
(* i and get(u, v) is true only for u = v.                                 *)
C11_Constructed ==
    (Called("union_find") /\ number_of_elements >= 0) =>
        /\ DOMAIN repr = 0 .. (number_of_elements - 1)
        /\ DOMAIN component_size = DOMAIN repr
        /\ DOMAIN additionalInfo = DOMAIN repr
        /\ \A i \in DOMAIN repr :
              /\ repr[i] = i
              /\ component_size[i] = 1
              /\ additionalInfo[i].first = i
              /\ additionalInfo[i].second = i
              /\ size(self, i).ret = 1
        /\ count_islands(self).ret = number_of_elements
        /\ \A u, v \in DOMAIN repr : get(self, u, v).ret = (u = v)

\* A structure just constructed with three elements.
C11_Witness ==
    /\ Called("union_find")
    /\ call.args = <<3>>
    /\ Cardinality(DOMAIN repr) = 3

(* C12: repr is a forest: every entry is in 0 .. n-1; following repr from  *)
(* any element reaches, in fewer than n steps, an element r with repr[r] = *)
(* r; and every component contains exactly one such element, which is      *)
(* where its elements end.                                                 *)
C12_ReprIsForest ==
    /\ DOMAIN repr = Elements
    /\ \A a \in Elements : repr[a] \in Elements
    /\ \A a \in Elements :
          LET r == Walk(repr, a, number_of_elements - 1) IN repr[r] = r
    /\ \A B \in components :
          /\ Cardinality(B \cap Roots(repr)) = 1
          /\ \A a \in B : Root(repr, a) \in B

\* A path of two links: an element whose parent is not a root.
C12_Witness ==
    \E a \in Elements :
        /\ Cardinality(PathOf(repr, a)) = 3
        /\ Cardinality(Roots(repr)) = 1

(* C13: path compression: when find(a) returns r, every node that lay on   *)
(* the repr path from a to r before the call (a and r included) has repr   *)
(* equal to r after it; the repr entry of every other node, every          *)
(* component_size entry and every additionalInfo entry are unchanged.      *)
C13_PathCompression ==
    Called("find") =>
        /\ \A i \in Elements :
              repr[i] = IF i \in PathOf(before.repr, call.args[1])
                        THEN ret
                        ELSE before.repr[i]
        /\ component_size = before.component_size
        /\ additionalInfo = before.additionalInfo

\* A find over a path of three nodes, with a non-root node off the path.
C13_Witness ==
    /\ Called("find")
    /\ Cardinality(PathOf(before.repr, call.args[1])) = 3
    /\ \E i \in Elements :
          /\ i \notin PathOf(before.repr, call.args[1])
          /\ before.repr[i] # i

(* C14: size heuristic: when merge(x, y) joins two different components,   *)
(* the representative with the strictly smaller component_size is          *)
(* re-pointed to the other and its component_size set to 0, the other      *)
(* keeps itself as repr and gets the sum; with equal sizes it is the       *)
(* representative of the second argument that is re-pointed under the      *)
(* representative of the first.                                            *)
C14_SizeHeuristic ==
    (Called("merge") /\ ~MergedWithinComponent) =>
        LET rx     == Root(before.repr, call.args[1])
            ry     == Root(before.repr, call.args[2])
            sx     == before.component_size[rx]
            sy     == before.component_size[ry]
            loser  == IF sx < sy THEN rx ELSE ry
            winner == IF sx < sy THEN ry ELSE rx
        IN  /\ repr[loser] = winner
            /\ repr[winner] = winner
            /\ component_size[loser] = 0
            /\ component_size[winner] = sx + sy

\* A merge whose first argument was in the strictly smaller component,
\* which was re-pointed.
C14_Witness ==
    /\ Called("merge")
    /\ ~MergedWithinComponent
    /\ before.component_size[Root(before.repr, call.args[1])]
          < before.component_size[Root(before.repr, call.args[2])]
    /\ repr[Root(before.repr, call.args[1])]
          = Root(before.repr, call.args[2])

(* C15: for every index i, component_size[i] > 0 exactly when repr[i] = i; *)
(* count_islands() is the number of indices that are their own             *)
(* representative, and every absorbed index has component_size 0.          *)
C15_PositiveSizeIffRoot ==
    /\ \A i \in Elements : (component_size[i] > 0) <=> (repr[i] = i)
    /\ \A i \in Elements : repr[i] # i => component_size[i] = 0
    /\ count_islands(self).ret = Cardinality(Roots(repr))
    /\ Called("count_islands") => ret = Cardinality(Roots(repr))

\* count_islands returned 2 for four elements, two of them absorbed.
C15_Witness ==
    /\ Called("count_islands")
    /\ ret = 2
    /\ Cardinality({i \in Elements : component_size[i] = 0}) = 2

(* C16: union by size bounds tree height: for every root r and every       *)
(* element a of r's component, with h the number of links from a to r,     *)
(* component_size[r] >= 2^h.                                               *)
Depth(r, a) == Cardinality(PathOf(r, a)) - 1

C16_HeightBound ==
    \A a \in Elements : component_size[Root(repr, a)] >= 2 ^ Depth(repr, a)

\* An element two links from its root, in a component of four.
C16_Witness ==
    \E a \in Elements :
        /\ Depth(repr, a) = 2
        /\ component_size[Root(repr, a)] = 4

(* C17: merge(x, y) touches only the components of x and y: for every      *)
(* element c in neither before the call, repr[c], component_size[c] and    *)
(* additionalInfo[c] are unchanged, and so are size(c), the members of     *)
(* c's component and the aggregate at its representative.                  *)
C17_MergeFrame ==
    Called("merge") =>
        \A c \in Elements :
            c \notin Members(before.repr, call.args[1])
                         \cup Members(before.repr, call.args[2])
            => /\ repr[c] = before.repr[c]
               /\ component_size[c] = before.component_size[c]
               /\ additionalInfo[c] = before.additionalInfo[c]
               /\ size(self, c).ret = size(before, c).ret
               /\ Members(repr, c) = Members(before.repr, c)
               /\ additionalInfo[Root(repr, c)]
                     = before.additionalInfo[Root(before.repr, c)]

\* A merge joined two singletons beside a component of two.
C17_Witness ==
    /\ Called("merge")
    /\ ~MergedWithinComponent
    /\ \E c \in Elements :
          /\ c \notin Members(repr, call.args[1])
          /\ Cardinality(Members(before.repr, c)) = 2
          /\ before.repr[c] # c

(* C18: the queries are pure apart from path compression: size(a) and      *)
(* get(u, v) change no component_size or additionalInfo entry, nor the     *)
(* representative of any element, nor what size, get and count_islands     *)
(* return afterwards; count_islands() changes nothing at all.              *)
C18_QueriesPure ==
    /\ (Called("size") \/ Called("get")) =>
          /\ component_size = before.component_size
          /\ additionalInfo = before.additionalInfo
          /\ \A a \in Elements :
                /\ Root(repr, a) = Root(before.repr, a)
                /\ size(self, a).ret = size(before, a).ret
          /\ \A u, v \in Elements :
                get(self, u, v).ret = get(before, u, v).ret
          /\ count_islands(self).ret = count_islands(before).ret
    /\ Called("count_islands") => self = before

\* A size call that compressed a path and returned 4.
C18_Witness ==
    /\ Called("size")
    /\ repr # before.repr
    /\ ret = 4

\* What the call of the thread record th returns, and the vectors it
\* leaves, when it runs in one piece on the vectors it started on.
InOnePiece(th) ==
    CASE th.op = "find"  -> find(th.start, th.args[1])
      [] th.op = "size"  -> size(th.start, th.args[1])
      [] th.op = "merge" -> merge(th.start, th.args[1], th.args[2])
      [] th.op = "get"   -> get(th.start, th.args[1], th.args[2])
      [] th.op = "count_islands" -> count_islands(th.start)

(* C19: every call with valid identifiers in a reachable state terminates: *)
(* executed statement by statement it can always take its next step until  *)
(* it has returned, it returns within 8n + 3 steps, and what it returns    *)
(* and leaves is what the member function computes.  A call of find(a)     *)
(* from outside find opens at most as many frames of find as there were    *)
(* nodes on the repr path from a to its root, which is at most n.          *)
C19_CallsTerminate ==
    \A t \in Threads :
        LET th == threads[t]
        IN  /\ Len(th.stack) <= th.calls
            /\ th.calls <= th.path
            /\ th.path <= number_of_elements
            /\ th.steps <= 8 * number_of_elements + 3
            /\ Running(t) => ENABLED Step(t)
            /\ th.pc = "done" =>
                  /\ th.val = InOnePiece(th).ret
                  /\ self = InOnePiece(th).uf

\* A call of find over a path of three nodes has returned: three frames
\* opened, nine steps taken.
C19_Witness ==
    /\ threads[1].pc = "done"
    /\ threads[1].op = "find"
    /\ threads[1].path = 3
    /\ threads[1].calls = 3
    /\ threads[1].steps = 9

(* C20: the structure is unsafe without external mutual exclusion.  When   *)
(* the callers guard every call with one exclusive lock, at most one call  *)
(* is under way, and whenever none is, size conservation, size-equals-     *)
(* membership and aggregate correctness hold, and every call has returned  *)
(* and left what it does in one piece on the vectors it found when it      *)
(* took the lock: the results are those of the calls in the order of the   *)
(* lock.  Without the lock some interleaving of two calls reaches a state  *)
(* in which that fails: C20_Witness, two merges that lose size.            *)
SizeConserved == SumOver(component_size, Elements) = number_of_elements

SizeIsMembership ==
    \A r \in Roots(repr) : component_size[r] = Cardinality(Members(repr, r))

AggregateCorrect ==
    \A r \in Roots(repr) :
        /\ additionalInfo[r].first = Least(Members(repr, r))
        /\ additionalInfo[r].second = Greatest(Members(repr, r))

NoCallUnderWay == \A t \in Threads : ~Running(t)

C20_LockMakesCallsAtomic ==
    mutex.used =>
        /\ \A t \in Threads : Running(t) => mutex.holder = t
        /\ NoCallUnderWay =>
              /\ mutex.holder = 0
              /\ SizeConserved
              /\ SizeIsMembership
              /\ AggregateCorrect
        /\ \A t \in Threads :
              threads[t].pc = "done" =>
                  /\ threads[t].val = InOnePiece(threads[t]).ret
                  /\ \/ self = InOnePiece(threads[t]).uf
                     \/ \E u \in Threads \ {t} :
                           /\ threads[u].pc # "idle"
                           /\ threads[u].start = InOnePiece(threads[t]).uf

\* Without the lock: two merges have both returned and the sizes no longer
\* add up to n.
C20_Witness ==
    /\ ~mutex.used
    /\ \A t \in Threads :
          threads[t].pc = "done" /\ threads[t].op = "merge"
    /\ ~SizeConserved

=============================================================================
